---- MODULE Spec2Model ----
(***************************************************************************)
(* ShivanoshConverter (src/src/main.rs): the ShivanoshApp handlers and the *)
(* "MYIF" container codec they call.                                       *)
(*                                                                         *)
(* A byte is an integer in 0..255.  A u32 is the record [hi, lo] of its    *)
(* two 16-bit halves, so that the full 32-bit range is represented and     *)
(* u32 arithmetic keeps its width.  A usize is 64 bits wide.               *)
(*                                                                         *)
(* Each handler is one action.  ShivanoshApp.texture_handle, the GUI's     *)
(* cache of the uploaded texture, and the drawing done by update() are     *)
(* left out: no handler modelled here reads them.                          *)
(***************************************************************************)
EXTENDS Integers, Sequences, FiniteSets, TLC

VARIABLES
    fs,               \* the files on disk: path -> file
    overflow_checks,  \* build profile: TRUE = debug (overflow panics), FALSE = release (wraps)
    alive,            \* FALSE once a handler has panicked (the process is gone)
    input_paths,      \* ShivanoshApp.input_paths
    shivanosh_paths,  \* ShivanoshApp.shivanosh_paths
    status,           \* ShivanoshApp.status
    image_to_view,    \* ShivanoshApp.image_to_view: <<>> is None, <<img>> is Some(img)
    last_op,          \* history: the handler that ran last
    calls,            \* history: the convert_image_to_shivanosh calls of the last batch
    viewed            \* history: the decompress_shivanosh run of the last view, <<>> if none

vars == <<fs, overflow_checks, alive, input_paths, shivanosh_paths, status,
          image_to_view, last_op, calls, viewed>>

----------------------------------------------------------------------------
(* Bounds of the model. *)

\* Source images have width and height in 0..MaxDim.
MaxDim == 2
\* The payloads of foreign .shivanosh files decompress to 0..MaxData bytes.
MaxData == 17
\* A file dialog returns at most MaxPick paths.
MaxPick == 2

----------------------------------------------------------------------------
(* u32 and usize arithmetic. *)

U32Of(n) == [hi |-> n \div 65536, lo |-> n % 65536]

\* u32::to_le_bytes: least significant byte first.
to_le_bytes(u) == <<u.lo % 256, u.lo \div 256, u.hi % 256, u.hi \div 256>>

\* u32::from_le_bytes.
from_le_bytes(b) == [hi |-> b[3] + 256 * b[4], lo |-> b[1] + 256 * b[2]]

\* The exact product of two u32 values as 8 base-256 digits, least
\* significant first (schoolbook multiplication on the values' bytes).
WideMul(a, b) ==
    LET x == to_le_bytes(a)
        y == to_le_bytes(b)
        Term(i, k) == IF k - i \in 0..3 THEN x[i + 1] * y[k - i + 1] ELSE 0
        col[k \in 0..7] == Term(0, k) + Term(1, k) + Term(2, k) + Term(3, k)
        carry[k \in 0..7] == IF k = 0 THEN 0 ELSE (col[k - 1] + carry[k - 1]) \div 256
    IN  [k \in 1..8 |-> (col[k - 1] + carry[k - 1]) % 256]

\* `a * b` on u32: with overflow checks an overflowing product panics,
\* without them it wraps to the low 32 bits.
MulU32(a, b, checks) ==
    LET p == WideMul(a, b)
        over == \E k \in 5..8 : p[k] # 0
    IN  IF over /\ checks
        THEN [panic |-> TRUE]
        ELSE [panic |-> FALSE, val |-> from_le_bytes(<<p[1], p[2], p[3], p[4]>>)]

\* `(v as usize) / 4`: a usize below 2^30, held as an integer.
UsizeDiv4(v) == v.hi * 16384 + v.lo \div 4

\* `i < w` for a small usize i and a u32 w.
LtU32(i, w) == w.hi >= 16384 \/ i < w.hi * 65536 + w.lo

\* `i as u32 % w` and `i as u32 / w` for i < 2^30; w = 0 panics (division by zero).
RemU32(i, w) == IF LtU32(i, w) THEN i ELSE i % (w.hi * 65536 + w.lo)
DivU32(i, w) == IF LtU32(i, w) THEN 0 ELSE i \div (w.hi * 65536 + w.lo)
IsZeroU32(w) == w.hi = 0 /\ w.lo = 0

----------------------------------------------------------------------------
(* The compression codec (flate2's zlib encoder and reader), which the     *)
(* program uses as a library.  The model is a framed stream: a header      *)
(* byte, the length, the data and a checksum.  As with flate2's reader, a  *)
(* stream that ends early yields the data decoded so far without an error, *)
(* a stream that does not start with the header or whose checksum is wrong *)
(* is an InvalidInput error, and bytes after the stream's end are ignored. *)

ZHeader == <<120>>

RECURSIVE SumBytes(_)
SumBytes(b) == IF b = <<>> THEN 0 ELSE b[1] + SumBytes(Tail(b))

Checksum(b) == (1 + SumBytes(b)) % 251

Take(s, n) == SubSeq(s, 1, IF n < Len(s) THEN n ELSE Len(s))
Drop(s, n) == SubSeq(s, n + 1, Len(s))

compress(b) == ZHeader \o <<Len(b)>> \o b \o <<Checksum(b)>>

decompress(p) ==
    IF Len(p) = 0 THEN [ok |-> TRUE, data |-> <<>>]
    ELSE IF Take(p, 1) # ZHeader THEN [ok |-> FALSE]
    ELSE IF Len(p) = 1 THEN [ok |-> TRUE, data |-> <<>>]
    ELSE LET n == p[2]
             body == Take(Drop(p, 2), n)
         IN  IF Len(p) < n + 3 THEN [ok |-> TRUE, data |-> body]
             ELSE IF p[n + 3] # Checksum(body) THEN [ok |-> FALSE]
             ELSE [ok |-> TRUE, data |-> body]

----------------------------------------------------------------------------
(* Paths, files and images. *)

Path(stem, ext) == [stem |-> stem, ext |-> ext]

InputPaths == {Path("a", "png"), Path("b", "png")}

\* fn get_output_path: the input path with its extension replaced.
get_output_path(input_path) == [input_path EXCEPT !.ext = "shivanosh"]

OutputPaths == {get_output_path(p) : p \in InputPaths}
ForeignPath == Path("x", "shivanosh")
ShivanoshFiles == OutputPaths \cup {ForeignPath}
AllPaths == InputPaths \cup ShivanoshFiles

NoFile == [kind |-> "none"]
ImageFile(img) == [kind |-> "image", img |-> img]
BytesFile(b) == [kind |-> "bytes", bytes |-> b]

U32ToInt(u) == u.hi * 65536 + u.lo

Coords(w, h) == (0..(w - 1)) \X (0..(h - 1))

\* A source image of w x h pixels whose channel bytes differ from pixel to
\* pixel and from channel to channel.
MkRaster(w, h, seed) ==
    [width |-> U32Of(w), height |-> U32Of(h),
     px |-> [c \in Coords(w, h) |->
               [k \in 1..4 |-> (seed + 37 * c[1] + 101 * c[2] + 7 * k) % 256]]]

Seeds == {0, 200}

\* The images image::open can yield: any size up to the bound, the image
\* without pixels included; an image with rows but no columns is left out
\* (no image decoder yields one).
Rasters == {MkRaster(w, h, s) : w \in 1..MaxDim, h \in 0..MaxDim, s \in Seeds}
               \cup {MkRaster(0, 0, 0)}

\* The pixel of an image buffer: a pixel never put is still the zero that
\* ImageBuffer::new filled in.
PixelAt(img, c) == IF c \in DOMAIN img.px THEN img.px[c] ELSE <<0, 0, 0, 0>>

----------------------------------------------------------------------------
(* The encoder: fn convert_image_to_shivanosh. *)

Magic == <<77, 89, 73, 70>>    \* b"MYIF"

\* img.pixels(): x runs fastest; at the end of a row x returns to 0 and y
\* moves on; the walk ends when y reaches the height.
RECURSIVE PixelWalk(_, _, _, _)
PixelWalk(img, x, y, acc) ==
    LET w  == U32ToInt(img.width)
        h  == U32ToInt(img.height)
        x1 == IF x >= w THEN 0 ELSE x
        y1 == IF x >= w THEN y + 1 ELSE y
    IN  IF y1 >= h THEN acc
        ELSE PixelWalk(img, x1 + 1, y1, acc \o img.px[<<x1, y1>>])

\* The pixel_data vector: every pixel's four channel bytes, in walk order.
pixel_data(img) == PixelWalk(img, 0, 0, <<>>)

\* The three header writes: the magic, then width, then height.
ContainerHeader_swapped(width, height) ==
    Magic \o to_le_bytes(height) \o to_le_bytes(width)

ContainerHeader(width, height) ==
    Magic \o to_le_bytes(width) \o to_le_bytes(height)

\* The places where a run of convert_image_to_shivanosh can fail for a
\* reason outside the program (an I/O error of the codec, of File::create
\* or of one of the four write_all calls); "none" is a run without one.
Faults == {"none", "compress", "create", "write_magic", "write_width",
           "write_height", "write_payload"}

\* One run on the files fsv: its result and the files afterwards.  A failed
\* write_all is taken to have written nothing of its buffer.
convert_image_to_shivanosh(fsv, input_path, output_path, fault) ==
    IF fsv[input_path].kind # "image"
    THEN [ok |-> FALSE, err |-> "Other", fs |-> fsv]
    ELSE
    LET img    == fsv[input_path].img
        width  == img.width
        height == img.height
        compressed_data == compress(pixel_data(img))
        Wrote(b) == [fsv EXCEPT ![output_path] = BytesFile(b)]
        b1 == Take(ContainerHeader(width, height), 4)
        b2 == Take(ContainerHeader(width, height), 8)
        b3 == ContainerHeader(width, height)
        b4 == b3 \o compressed_data
    IN  CASE fault = "compress"      -> [ok |-> FALSE, err |-> "Io", fs |-> fsv]
          [] fault = "create"        -> [ok |-> FALSE, err |-> "Io", fs |-> fsv]
          [] fault = "write_magic"   -> [ok |-> FALSE, err |-> "Io", fs |-> Wrote(<<>>)]
          [] fault = "write_width"   -> [ok |-> FALSE, err |-> "Io", fs |-> Wrote(b1)]
          [] fault = "write_height"  -> [ok |-> FALSE, err |-> "Io", fs |-> Wrote(b2)]
          [] fault = "write_payload" -> [ok |-> FALSE, err |-> "Io", fs |-> Wrote(b3)]
          [] OTHER                   -> [ok |-> TRUE, err |-> "", fs |-> Wrote(b4)]

----------------------------------------------------------------------------
(* The batch: fn convert_to_shivanosh. *)

\* The for loop from position k on; faults[k] is what befalls the k-th run.
RECURSIVE ConvertLoop_no_break(_, _, _, _, _, _)
ConvertLoop_no_break(paths, k, fsv, st, cs, faults) ==
    IF k > Len(paths) THEN [fs |-> fsv, status |-> st, calls |-> cs]
    ELSE
    LET input_path  == paths[k]
        output_path == get_output_path(input_path)
        r  == convert_image_to_shivanosh(fsv, input_path, output_path, faults[k])
        c  == [path |-> input_path, ok |-> r.ok]
    IN  ConvertLoop_no_break(paths, k + 1, r.fs,
            IF r.ok THEN <<"Successfully converted: ", input_path>>
                    ELSE <<"Error converting ", input_path, ": ", r.err>>,
            Append(cs, c), faults)

RECURSIVE ConvertLoop(_, _, _, _, _, _)
ConvertLoop(paths, k, fsv, st, cs, faults) ==
    IF k > Len(paths) THEN [fs |-> fsv, status |-> st, calls |-> cs]
    ELSE
    LET input_path  == paths[k]
        output_path == get_output_path(input_path)
        r  == convert_image_to_shivanosh(fsv, input_path, output_path, faults[k])
        c  == [path |-> input_path, ok |-> r.ok]
    IN  IF r.ok
        THEN ConvertLoop(paths, k + 1, r.fs,
                         <<"Successfully converted: ", input_path>>,
                         Append(cs, c), faults)
        ELSE [fs |-> r.fs,
              status |-> <<"Error converting ", input_path, ": ", r.err>>,
              calls |-> Append(cs, c)]

convert_to_shivanosh_result(paths, fsv, st, faults) ==
    IF paths = <<>>
    THEN [fs |-> fsv, status |-> <<"No images selected!">>, calls |-> <<>>]
    ELSE ConvertLoop(paths, 1, fsv, st, <<>>, faults)

----------------------------------------------------------------------------
(* The decoder: fn decompress_shivanosh. *)

\* The bytes File::open and the reads see; an image file starts with its
\* own format's signature (PNG's here).
FileBytes(f) == IF f.kind = "bytes" THEN f.bytes ELSE <<137, 80, 78, 71>>

\* What a run did, kept beside its result:
\*   reads      the reads of the file it made, in order
\*   inflated   whether it ran the codec on the payload
\*   allocated  whether it made the image buffer
\*   idx        the indexes of decompressed_data it read
\*   oob        the index at or past the end it asked for, -1 if none
\*   divs       the number of `% width` and `/ width` it computed
\*   puts       the number of put_pixel calls it made
Trace0 == [result |-> "Ok", err |-> "", img |-> <<>>, reads |-> <<>>,
           inflated |-> FALSE, allocated |-> FALSE, idx |-> {}, oob |-> -1,
           divs |-> 0, puts |-> 0]

Failed(t, e) == [t EXCEPT !.result = "Err", !.err = e, !.img = <<>>]
Panicked(t, why) == [t EXCEPT !.result = "Panic", !.err = why, !.img = <<>>]

\* Group i of the buffer belongs to the pixel (i % width, i / width).
PixelCoord_swapped(i, width) == <<DivU32(i, width), RemU32(i, width)>>

PixelCoord(i, width) == <<RemU32(i, width), DivU32(i, width)>>

\* The for loop `for i in 0..pixel_count / 4` from i on, n being the bound.
RECURSIVE FillLoop(_, _, _, _, _)
FillLoop(i, n, data, img, t) ==
    IF i >= n THEN [t EXCEPT !.img = <<img>>]
    ELSE
    LET have == {j \in (i * 4)..(i * 4 + 3) : j < Len(data)}
    IN  IF Cardinality(have) < 4
        THEN Panicked([t EXCEPT !.idx = @ \cup have,
                                !.oob = i * 4 + Cardinality(have)],
                      "index out of bounds")
        ELSE
        LET r == data[i * 4 + 1]
            g == data[i * 4 + 2]
            b == data[i * 4 + 3]
            a == data[i * 4 + 4]
            t1 == [t EXCEPT !.idx = @ \cup have]
        IN  IF IsZeroU32(img.width)
            THEN Panicked(t1, "remainder with a divisor of zero")
            ELSE
            LET c  == PixelCoord(i, img.width)
                t2 == [t1 EXCEPT !.divs = @ + 2]
            IN  IF ~(LtU32(c[1], img.width) /\ LtU32(c[2], img.height))
                THEN Panicked(t2, "put_pixel out of bounds")
                ELSE FillLoop(i + 1, n, data,
                              [img EXCEPT !.px =
                                  [d \in DOMAIN img.px \cup {c} |->
                                      IF d = c THEN <<r, g, b, a>> ELSE img.px[d]]],
                              [t2 EXCEPT !.puts = @ + 1])

\* file.read_exact(&mut buf) for a buffer of n bytes with the file at
\* offset pos: the next n bytes, or an UnexpectedEof error.
read_exact_short(src, pos, n) ==
    [ok |-> TRUE, buf |-> [k \in 1..n |-> IF pos + k <= Len(src) THEN src[pos + k] ELSE 0]]

read_exact(src, pos, n) ==
    IF Len(src) - pos >= n
    THEN [ok |-> TRUE, buf |-> SubSeq(src, pos + 1, pos + n)]
    ELSE [ok |-> FALSE]

\* `&magic != b"MYIF"`, negated.
MagicOk_prefix(magic) == SubSeq(magic, 1, 3) = SubSeq(Magic, 1, 3)

MagicOk(magic) == magic = Magic

\* RgbaImage::new(width, height) makes a zeroed buffer of 4 * width * height
\* bytes.  It panics when that is more than a Vec can hold (isize::MAX
\* bytes on a 64-bit target: width * height >= 2^61), and the process
\* aborts when the allocator cannot grant the buffer; the machine of the
\* model grants a buffer of less than 2^34 bytes (width * height < 2^32).
NewImage(width, height) ==
    LET p == WideMul(width, height)
    IN  IF p[8] >= 32 THEN "panic"
        ELSE IF \E k \in 5..8 : p[k] # 0 THEN "abort"
        ELSE "ok"

\* The bound of the loop: `(width * height * 4) as usize / 4`.
LoopBound_inclusive(width, height, checks) ==
    LET m1 == MulU32(width, height, checks)
    IN  IF m1.panic THEN [panic |-> TRUE]
        ELSE LET m2 == MulU32(m1.val, U32Of(4), checks)
             IN  IF m2.panic THEN [panic |-> TRUE]
                 ELSE [panic |-> FALSE, n |-> UsizeDiv4(m2.val) + 1]

LoopBound(width, height, checks) ==
    LET m1 == MulU32(width, height, checks)
    IN  IF m1.panic THEN [panic |-> TRUE]
        ELSE LET m2 == MulU32(m1.val, U32Of(4), checks)
             IN  IF m2.panic THEN [panic |-> TRUE]
                 ELSE [panic |-> FALSE, n |-> UsizeDiv4(m2.val)]

decompress_shivanosh(fsv, path, checks) ==
    IF fsv[path].kind = "none" THEN Failed(Trace0, "NotFound")
    ELSE
    LET src == FileBytes(fsv[path])
        t1  == [Trace0 EXCEPT !.reads = <<"magic">>]
        t2  == [t1 EXCEPT !.reads = Append(@, "width")]
        t3  == [t2 EXCEPT !.reads = Append(@, "height")]
        t4  == [t3 EXCEPT !.reads = Append(@, "payload")]
        t5  == [t4 EXCEPT !.inflated = TRUE]
        t6  == [t5 EXCEPT !.allocated = TRUE]
        magic == read_exact(src, 0, 4)
        width_bytes  == read_exact(src, 4, 4)
        height_bytes == read_exact(src, 8, 4)
    IN  IF ~magic.ok THEN Failed(t1, "UnexpectedEof")
        ELSE IF ~MagicOk(magic.buf) THEN Failed(t1, "InvalidData")
        ELSE IF ~width_bytes.ok THEN Failed(t2, "UnexpectedEof")
        ELSE IF ~height_bytes.ok THEN Failed(t3, "UnexpectedEof")
        ELSE
        LET width  == from_le_bytes(width_bytes.buf)
            height == from_le_bytes(height_bytes.buf)
            compressed_data == Drop(src, 12)
            d == decompress(compressed_data)
        IN  IF ~d.ok THEN Failed(t5, "InvalidInput")
            ELSE IF NewImage(width, height) = "panic"
            THEN Panicked(t5, "capacity overflow")
            ELSE IF NewImage(width, height) = "abort"
            THEN Panicked(t5, "memory allocation failed")
            ELSE
            LET img == [width |-> width, height |-> height, px |-> <<>>]
                pc  == LoopBound(width, height, checks)
            IN  IF pc.panic THEN Panicked(t6, "multiply with overflow")
                ELSE FillLoop(0, pc.n, d.data, img, t6)

----------------------------------------------------------------------------
(* The files on disk when the program starts. *)

Files(inputs, outputs) ==
    [p \in AllPaths |-> IF p \in DOMAIN inputs THEN inputs[p]
                        ELSE IF p \in DOMAIN outputs THEN outputs[p]
                        ELSE NoFile]

\* Two files to convert, each an image or a file that is not one.
BatchDisks ==
    {Files(i, <<>>) : i \in [InputPaths -> {ImageFile(MkRaster(2, 1, 0)),
                                            BytesFile(<<0>>)}]}

\* One image to convert, of any size and content within the bounds.
CodecDisks ==
    {Files([p \in {Path("a", "png")} |-> ImageFile(r)], <<>>) : r \in Rasters}

\* One .shivanosh file that some other program wrote: any magic, any
\* width and height, any payload, cut short anywhere in its header.
DimValues == {U32Of(0), U32Of(1), U32Of(2), U32Of(3),
              [hi |-> 16384, lo |-> 0], [hi |-> 16384, lo |-> 1],
              [hi |-> 65535, lo |-> 65535]}
Data(n) == [k \in 1..n |-> (11 + 37 * k) % 256]
Payloads == {compress(Data(n)) : n \in 0..MaxData}
                \cup {<<>>, <<1, 2, 3>>, Take(compress(Data(8)), 7),
                      ZHeader \o <<1, 5, 0>>}
Magics == {Magic, <<0, 0, 0, 0>>, <<77, 89, 73, 71>>}
Headers == {m \o to_le_bytes(w) \o to_le_bytes(h) :
                m \in Magics, w \in DimValues, h \in DimValues}
Sources == {hd \o p : hd \in Headers, p \in Payloads}
               \cup {Take(hd, n) : hd \in Headers, n \in 0..11}
ForeignDisks ==
    {Files(<<>>, [p \in {ForeignPath} |-> BytesFile(src)]) : src \in Sources}

Init ==
    /\ fs \in BatchDisks \cup CodecDisks \cup ForeignDisks
    /\ overflow_checks \in BOOLEAN
    /\ alive = TRUE
    /\ input_paths = <<>>
    /\ shivanosh_paths = <<>>
    /\ status = <<"">>
    /\ image_to_view = <<>>
    /\ last_op = "new"
    /\ calls = <<>>
    /\ viewed = <<>>

----------------------------------------------------------------------------
(* The handlers. *)

\* What pick_files can return as Some(paths): the files of `among` that
\* exist, one or more of them, in any order.
Picks(among) ==
    LET there == {p \in among : fs[p].kind # "none"}
    IN  {s \in UNION {[1..n -> there] : n \in 1..MaxPick} :
            \A i, j \in DOMAIN s : i # j => s[i] # s[j]}

\* fn open_file_dialog; a cancelled dialog (None) changes nothing.
open_file_dialog ==
    /\ alive
    /\ \E paths \in Picks(InputPaths) :
          /\ input_paths' = paths
          /\ last_op' = "open_file_dialog"
          /\ calls' = <<>>
          /\ viewed' = <<>>
    /\ UNCHANGED <<fs, overflow_checks, alive, shivanosh_paths, status, image_to_view>>

\* fn convert_to_shivanosh, the click on "Convert to .shivanosh".
convert_to_shivanosh ==
    /\ alive
    /\ \E faults \in [1..Len(input_paths) -> Faults] :
          LET r == convert_to_shivanosh_result(input_paths, fs, status, faults)
          IN  /\ fs' = r.fs
              /\ status' = r.status
              /\ calls' = r.calls
    /\ last_op' = "convert_to_shivanosh"
    /\ viewed' = <<>>
    /\ UNCHANGED <<overflow_checks, alive, input_paths, shivanosh_paths, image_to_view>>

\* fn view_shivanosh_images on the paths just picked: the first one is
\* decoded; a panic ends the process.
view_shivanosh_images(paths) ==
    LET path == paths[1]
        t    == decompress_shivanosh(fs, path, overflow_checks)
    IN  /\ viewed' = <<[path |-> path, run |-> t]>>
        /\ CASE t.result = "Ok" ->
                  /\ image_to_view' = t.img
                  /\ UNCHANGED <<status, alive>>
             [] t.result = "Err" ->
                  /\ status' = <<"Error viewing ", path, ": ", t.err>>
                  /\ UNCHANGED <<image_to_view, alive>>
             [] OTHER ->
                  /\ alive' = FALSE
                  /\ UNCHANGED <<image_to_view, status>>

\* fn open_shivanosh_dialog; a cancelled dialog changes nothing.
open_shivanosh_dialog ==
    /\ alive
    /\ \E paths \in Picks(ShivanoshFiles) :
          /\ shivanosh_paths' = paths
          /\ view_shivanosh_images(paths)
    /\ last_op' = "view_shivanosh_images"
    /\ UNCHANGED <<fs, overflow_checks, input_paths, calls>>

Next == open_file_dialog \/ convert_to_shivanosh \/ open_shivanosh_dialog

Spec == Init /\ [][Next]_vars

----------------------------------------------------------------------------
(* What the claims speak of, stated apart from the program's definitions. *)

\* The last view: the bytes of the file it decoded and what the run did.
ViewSrc == FileBytes(fs[viewed[1].path])
ViewRun == viewed[1].run

\* The header fields of a source of 12 bytes or more, byte by byte.
SrcMagicIsMYIF(src) == src[1] = 77 /\ src[2] = 89 /\ src[3] = 73 /\ src[4] = 70
SrcWidthIsZero(src) == \A k \in 5..8 : src[k] = 0
SrcHeightIsZero(src) == \A k \in 9..12 : src[k] = 0
SrcPayload(src) == SubSeq(src, 13, Len(src))

\* The base-256 digits of a number below 2^31, least significant first.
Digit(n, k) == CASE k = 1 -> n % 256
                 [] k = 2 -> (n \div 256) % 256
                 [] k = 3 -> (n \div 65536) % 256
                 [] k = 4 -> (n \div 16777216) % 256
                 [] OTHER -> 0

\* The declared dimensions as exact naturals are not representable past
\* 2^31; the declared pixel count width * height is compared digit by digit.
SrcPixelCountIs(src, n) ==
    LET Term(i, k) == IF k - i \in 0..3 THEN src[5 + i] * src[9 + k - i] ELSE 0
        col[k \in 0..7] == Term(0, k) + Term(1, k) + Term(2, k) + Term(3, k)
        carry[k \in 0..7] == IF k = 0 THEN 0 ELSE (col[k - 1] + carry[k - 1]) \div 256
    IN  \A k \in 1..8 : (col[k - 1] + carry[k - 1]) % 256 = Digit(n, k)

\* width * height * 4 is more than n, for n below 2^29.
SrcNeedsMoreThan(src, n) ==
    \A m \in 0..(n \div 4) : ~SrcPixelCountIs(src, m)

\* The container the spec lays out for an image: "MYIF", the width and the
\* height as 4 little-endian bytes each, and the compressed row-major
\* R,G,B,A bytes.
RowMajor(img) ==
    LET w == U32ToInt(img.width)
        h == U32ToInt(img.height)
    IN  [j \in 1..(w * h * 4) |->
            img.px[<<((j - 1) \div 4) % w, ((j - 1) \div 4) \div w>>][((j - 1) % 4) + 1]]

ContainerOf(img) ==
    <<77, 89, 73, 70>>
        \o [k \in 1..4 |-> Digit(U32ToInt(img.width), k)]
        \o [k \in 1..4 |-> Digit(U32ToInt(img.height), k)]
        \o compress(RowMajor(img))

\* Position k of the last batch converted its path, and the view that
\* followed decoded the file it wrote.
ViewedOutputOf(k) ==
    /\ viewed # <<>>
    /\ k \in 1..Len(calls)
    /\ calls[k].ok
    /\ viewed[1].path = get_output_path(calls[k].path)

----------------------------------------------------------------------------
(* The claims. *)

\* C1: round trip.  When a file the encoder has just written for an image
\* R (width * height * 4 within u32) is decoded, the decoder succeeds and
\* the image it returns has R's width, R's height and R's four bytes at
\* every pixel.
C1_RoundTrip ==
    \A k \in 1..Len(calls) :
        ViewedOutputOf(k) =>
            LET R == fs[calls[k].path].img
                w == U32ToInt(R.width)
                h == U32ToInt(R.height)
            IN  w * h * 4 < 1073741824 =>
                  /\ ViewRun.result = "Ok"
                  /\ image_to_view = ViewRun.img
                  /\ image_to_view # <<>>
                  /\ image_to_view[1].width = R.width
                  /\ image_to_view[1].height = R.height
                  /\ \A c \in Coords(w, h) : PixelAt(image_to_view[1], c) = R.px[c]

C1_Witness ==
    \E k \in 1..Len(calls) :
        /\ ViewedOutputOf(k)
        /\ fs[calls[k].path].img = MkRaster(2, 2, 200)
        /\ image_to_view # <<>>

\* C2: size mismatch.  A source with a valid magic and a whole header
\* whose payload decompresses to fewer than width * height * 4 bytes is
\* refused with the SizeMismatch error, no pixel is put and no index at or
\* past the end of the decompressed buffer is asked for.
C2_SizeMismatch ==
    (/\ viewed # <<>>
     /\ Len(ViewSrc) >= 12
     /\ SrcMagicIsMYIF(ViewSrc)
     /\ decompress(SrcPayload(ViewSrc)).ok
     /\ SrcNeedsMoreThan(ViewSrc, Len(decompress(SrcPayload(ViewSrc)).data)))
    => /\ ViewRun.result = "Err"
       /\ ViewRun.err = "SizeMismatch"
       /\ ViewRun.puts = 0
       /\ ViewRun.oob = -1

\* C3: the decoder never panics: every run ends with a raster or an error.
C3_NeverPanics ==
    /\ alive
    /\ viewed # <<>> => ViewRun.result \in {"Ok", "Err"}

\* C4: pixel fill is complete and exact.  A returned raster has the
\* declared width and height, as many pixels put as width * height, and
\* the pixel put for group i is at (i mod width, i div width) and holds the
\* four bytes of group i of the decompressed buffer.
C4_PixelFill ==
    (viewed # <<>> /\ ViewRun.result = "Ok") =>
        LET img  == ViewRun.img[1]
            data == decompress(SrcPayload(ViewSrc)).data
        IN  /\ to_le_bytes(img.width) = SubSeq(ViewSrc, 5, 8)
            /\ to_le_bytes(img.height) = SubSeq(ViewSrc, 9, 12)
            /\ SrcPixelCountIs(ViewSrc, Cardinality(DOMAIN img.px))
            /\ \A c \in DOMAIN img.px :
                  LET i == c[2] * U32ToInt(img.width) + c[1]
                  IN  /\ c[1] < U32ToInt(img.width)
                      /\ img.px[c] = SubSeq(data, 4 * i + 1, 4 * i + 4)

\* C5: bad magic.  A source whose first 4 bytes are not "MYIF" is refused
\* with the InvalidFormat error (io::ErrorKind::InvalidData) whatever
\* follows, after the read of the magic alone.
C5_BadMagic ==
    (viewed # <<>> /\ Len(ViewSrc) >= 4 /\ ~SrcMagicIsMYIF(ViewSrc)) =>
        /\ ViewRun.result = "Err"
        /\ ViewRun.err = "InvalidData"
        /\ ViewRun.reads = <<"magic">>
        /\ ~ViewRun.inflated
        /\ ~ViewRun.allocated

C5_Witness ==
    /\ viewed # <<>>
    /\ Len(ViewSrc) > 12
    /\ ~SrcMagicIsMYIF(ViewSrc)
    /\ decompress(SrcPayload(ViewSrc)).ok
    /\ ViewRun.result = "Err"

\* C6 as claimed: every source of fewer than 12 bytes is refused with the
\* TruncatedHeader error (io::ErrorKind::UnexpectedEof).
C6_TruncatedHeader_Claimed ==
    (viewed # <<>> /\ Len(ViewSrc) < 12) =>
        /\ ViewRun.result = "Err"
        /\ ViewRun.err = "UnexpectedEof"
        /\ ~ViewRun.inflated

\* C6 as amended: a source of fewer than 12 bytes is refused, no raster is
\* returned and the payload is never decompressed; the error is
\* TruncatedHeader, unless the source has 4 bytes or more and they are not
\* "MYIF", when it is InvalidFormat.
C6_TruncatedHeader ==
    (viewed # <<>> /\ Len(ViewSrc) < 12) =>
        /\ ViewRun.result = "Err"
        /\ ViewRun.img = <<>>
        /\ ~ViewRun.inflated
        /\ ViewRun.err = IF Len(ViewSrc) >= 4 /\ ~SrcMagicIsMYIF(ViewSrc)
                         THEN "InvalidData" ELSE "UnexpectedEof"

C6_Witness ==
    /\ viewed # <<>>
    /\ Len(ViewSrc) = 11
    /\ SrcMagicIsMYIF(ViewSrc)
    /\ ViewRun.err = "UnexpectedEof"

\* C7: container layout.  The file a successful run of the encoder leaves
\* for an image is "MYIF", the width and the height as 4 little-endian
\* bytes each, then the compressed row-major R,G,B,A bytes, and no more.
C7_ContainerLayout ==
    \A k \in 1..Len(calls) :
        calls[k].ok =>
            fs[get_output_path(calls[k].path)] =
                BytesFile(ContainerOf(fs[calls[k].path].img))

C7_Witness ==
    \E k \in 1..Len(calls) :
        /\ calls[k].ok
        /\ fs[calls[k].path].img = MkRaster(2, 1, 0)
        /\ SubSeq(fs[get_output_path(calls[k].path)].bytes, 1, 12)
              = <<77, 89, 73, 70, 2, 0, 0, 0, 1, 0, 0, 0>>

\* C8: zero size.  A container with a valid magic, a whole header, a width
\* or a height of 0 and a payload the codec accepts decodes to a raster
\* without pixels; no byte of the decompressed buffer is read and nothing
\* is divided by the width.
C8_ZeroSize ==
    (/\ viewed # <<>>
     /\ Len(ViewSrc) >= 12
     /\ SrcMagicIsMYIF(ViewSrc)
     /\ SrcWidthIsZero(ViewSrc) \/ SrcHeightIsZero(ViewSrc)
     /\ decompress(SrcPayload(ViewSrc)).ok)
    => /\ ViewRun.result = "Ok"
       /\ image_to_view = ViewRun.img
       /\ DOMAIN image_to_view[1].px = {}
       /\ to_le_bytes(image_to_view[1].width) = SubSeq(ViewSrc, 5, 8)
       /\ to_le_bytes(image_to_view[1].height) = SubSeq(ViewSrc, 9, 12)
       /\ ViewRun.idx = {}
       /\ ViewRun.oob = -1
       /\ ViewRun.divs = 0

C8_Witness ==
    /\ viewed # <<>>
    /\ ViewSrc = ContainerOf(MkRaster(0, 0, 0))
    /\ ViewedOutputOf(1)
    /\ ViewRun.result = "Ok"

\* C9: no partial files.  After any step, an output file either is as it
\* was before or holds the whole container of an image on disk.
C9_NoPartialFiles ==
    [][\A o \in OutputPaths :
          \/ fs'[o] = fs[o]
          \/ \E p \in InputPaths :
                /\ fs[p].kind = "image"
                /\ fs'[o] = BytesFile(ContainerOf(fs[p].img))]_vars

\* C10: the batch stops at the first error.  A run of convert_to_shivanosh
\* leaves input_paths as it was; on an empty list it converts nothing and
\* says "No images selected!"; otherwise it calls the encoder on the paths
\* in list order, up to and including the first that fails: the paths
\* before it are converted, the files of those after it are untouched, and
\* the status is the error naming it; if none fails all are converted and
\* the status is the success naming the last path.
C10_BatchStopsAtFirstError ==
    [][last_op' = "convert_to_shivanosh" =>
        LET n == Len(input_paths)
            m == Len(calls')
        IN  /\ input_paths' = input_paths
            /\ m <= n
            /\ \A j \in 1..m : calls'[j].path = input_paths[j]
            /\ \A j \in 1..(m - 1) : calls'[j].ok
            /\ \A j \in 1..m : calls'[j].ok =>
                  fs'[get_output_path(input_paths[j])]
                      = BytesFile(ContainerOf(fs[input_paths[j]].img))
            /\ \A j \in (m + 1)..n :
                  fs'[get_output_path(input_paths[j])]
                      = fs[get_output_path(input_paths[j])]
            /\ n = 0 => fs' = fs /\ status' = <<"No images selected!">>
            /\ (n > 0 /\ calls'[m].ok) =>
                  m = n /\ status' = <<"Successfully converted: ", input_paths[n]>>
            /\ (n > 0 /\ ~calls'[m].ok) =>
                  \E e \in {"Other", "Io"} :
                      status' = <<"Error converting ", input_paths[m], ": ", e>>
    ]_vars

C10_Witness ==
    /\ last_op = "convert_to_shivanosh"
    /\ Len(input_paths) = 2
    /\ Len(calls) = 1
    /\ ~calls[1].ok
    /\ fs[input_paths[2]].kind = "image"
    /\ fs[get_output_path(input_paths[2])] = NoFile

====
